---------------------------- MODULE Spec2Model ----------------------------
(***************************************************************************)
(* Model of the audio RAG question-answering pipeline of src/rag.py:       *)
(* transcribe_audio, create_embeddings_and_store,                          *)
(* search_and_generate_response and the handlers of main (process audio,   *)
(* reset database, chat query).                                            *)
(*                                                                         *)
(* The MongoDB collection is a sequence of documents in insertion order,   *)
(* the Atlas search indexes a sequence of index names.  The remote         *)
(* services (AssemblyAI, Voyage, MongoDB, Gemini) may fail at every call;  *)
(* a failure is a nondeterministic input of the action that makes the      *)
(* call.  Voyage embeddings are a fixed table from text to vector, the     *)
(* similarity score is the dot product of equal-norm vectors (the order    *)
(* cosine similarity gives).  Ties between equal scores are resolved by    *)
(* the store in an unspecified way: every admissible cut is modelled.      *)
(*                                                                         *)
(* The chat history and everything streamlit only displays are not state   *)
(* any property below reads and are left out.                              *)
(***************************************************************************)
EXTENDS Integers, Sequences, FiniteSets, TLC

VARIABLES
    store,          \* collection rag_db.test: sequence of documents
    indexes,        \* names of the search indexes of the collection
    nextSid,        \* the next value uuid.uuid4() hands out
    session_state,  \* st.session_state of each browser session
    pc,             \* where each browser session's script run stands
    local,          \* locals of a run of create_embeddings_and_store
    out,            \* outcome of the handler that finished last
    deleted         \* history: <<the session_ids the reset deleted>> from a
                    \* reset until the next ingestion, <<>> otherwise

vars == <<store, indexes, nextSid, session_state, pc, local, out, deleted>>

-----------------------------------------------------------------------------
(* Bounds and inputs *)

\* number of uuid4 values handed out in a behaviour
MaxSessions == 3

\* session_id=None (the default argument, and an absent session_state key)
NoSession == 0

\* "limit": 5 of the $vectorSearch stage
LIMIT == 5

IndexName == "vector_index"

Users == {"u1", "u2"}

\* utterance lists the transcription service returns for the uploaded files
Recordings ==
    { <<>>,
      <<[speaker |-> "A", text |-> "hello"]>>,
      <<[speaker |-> "A", text |-> "hello"], [speaker |-> "B", text |-> "world"]>> }

Queries == {"hello", "world"}

Min(a, b) == IF a <= b THEN a ELSE b

-----------------------------------------------------------------------------
(* transcribe_audio *)

\* the loop over transcript.utterances
transcribe_audio(utterances) ==
    [i \in 1..Len(utterances) |->
        [speaker |-> "Speaker " \o utterances[i].speaker,
         text    |-> utterances[i].text]]

-----------------------------------------------------------------------------
(* create_embeddings_and_store *)

\* mutant: the sentences without the speaker prefix
speaker_sents_text_only(speaker_transcripts) ==
    [i \in 1..Len(speaker_transcripts) |-> speaker_transcripts[i].text]

\* speaker_sents = [f"{item['speaker']}: {item['text']}" for item in ...]
speaker_sents(speaker_transcripts) ==
    [i \in 1..Len(speaker_transcripts) |->
        speaker_transcripts[i].speaker \o ": " \o speaker_transcripts[i].text]

\* vo.embed(...).embeddings for one text: the embedding service as a table
EmbedText(text) ==
    CASE text = "Speaker A: hello" -> <<4, 3>>
      [] text = "Speaker B: world" -> <<3, 4>>
      [] text = "hello"            -> <<5, 0>>
      [] text = "world"            -> <<0, 5>>
      [] OTHER                     -> <<3, -4>>

embed(texts) == [i \in 1..Len(texts) |-> EmbedText(texts[i])]

\* the loop over zip(speaker_sents, embeds) that builds docs
build_docs(sents, embeds, session_id) ==
    [i \in 1..Min(Len(sents), Len(embeds)) |->
        [text |-> sents[i], embedding |-> embeds[i], session_id |-> session_id]]

\* collection.insert_many(docs), of which the first k documents are written
insert_many(coll, docs, k) == coll \o SubSeq(docs, 1, k)

\* any(idx.get('name') == 'vector_index' for idx in existing_indexes)
vector_index_exists(existing_indexes) ==
    \E i \in 1..Len(existing_indexes) : existing_indexes[i] = IndexName

\* collection.create_search_index: the store refuses a second index of a name
create_search_index(idxs, name) ==
    IF \E i \in 1..Len(idxs) : idxs[i] = name THEN idxs ELSE Append(idxs, name)

DuplicateIndex(idxs, name) == \E i \in 1..Len(idxs) : idxs[i] = name

\* collection.drop_search_index
drop_search_index(idxs, name) == SelectSeq(idxs, LAMBDA n : n # name)

\* what the remote calls of one ingestion do: env.embed, env.list and
\* env.create are TRUE when the call succeeds, env.inserted is the number of
\* documents insert_many wrote (fewer than all when it raised)
IngestEnvs(n) ==
    [embed : {FALSE}, inserted : {0}, list : {FALSE}, create : {FALSE}]
    \cup [embed : {TRUE}, inserted : 0..(n - 1), list : {FALSE}, create : {FALSE}]
    \cup [embed : {TRUE}, inserted : {n}, list : BOOLEAN, create : BOOLEAN]

\* mutant: the documents are written before the embedding call is known to
\* have succeeded
store_segments_writes_first(speaker_transcripts, coll, uuid, env) ==
    LET sents  == speaker_sents(speaker_transcripts)
        docs   == build_docs(sents, embed(sents), uuid)
    IN  IF ~env.embed \/ sents = <<>>
        THEN [raised |-> TRUE, step |-> "embed",
              store |-> insert_many(coll, docs, Len(docs)),
              session_id |-> NoSession, count |-> 0]
        ELSE IF env.inserted < Len(docs)
        THEN [raised |-> TRUE, step |-> "insert",
              store |-> insert_many(coll, docs, env.inserted),
              session_id |-> uuid, count |-> env.inserted]
        ELSE [raised |-> FALSE, step |-> "insert",
              store |-> insert_many(coll, docs, Len(docs)),
              session_id |-> uuid, count |-> Len(docs)]

\* create_embeddings_and_store up to and including insert_many
store_segments(speaker_transcripts, coll, uuid, env) ==
    LET sents  == speaker_sents(speaker_transcripts)
        embeds == embed(sents)
        docs   == build_docs(sents, embeds, uuid)
    IN  IF ~env.embed \/ sents = <<>>
        THEN [raised |-> TRUE, step |-> "embed", store |-> coll,
              session_id |-> NoSession, count |-> 0]
        ELSE IF env.inserted < Len(docs)
        THEN [raised |-> TRUE, step |-> "insert",
              store |-> insert_many(coll, docs, env.inserted),
              session_id |-> uuid, count |-> env.inserted]
        ELSE [raised |-> FALSE, step |-> "insert",
              store |-> insert_many(coll, docs, Len(docs)),
              session_id |-> uuid, count |-> Len(docs)]

\* existing_indexes = list(collection.list_search_indexes()) and the test of
\* vector_index_exists: TRUE when create_search_index is called next
wants_create(idxs, env) == env.list /\ ~vector_index_exists(idxs)

\* collection.create_search_index(model=search_index_model) inside the try:
\* duplicate is TRUE when the store answered with a duplicate-index error
ensure_create(idxs, env) ==
    [indexes   |-> IF env.create THEN create_search_index(idxs, IndexName)
                   ELSE idxs,
     duplicate |-> env.create /\ DuplicateIndex(idxs, IndexName),
     warning   |-> IF ~env.create \/ DuplicateIndex(idxs, IndexName)
                   THEN "create_error" ELSE ""]

\* mutant: the try block without its except clause
ensure_index_uncaught(idxs, env) ==
    IF wants_create(idxs, env)
    THEN [raised |-> ensure_create(idxs, env).warning # "",
          indexes |-> ensure_create(idxs, env).indexes,
          warning |-> ensure_create(idxs, env).warning,
          duplicate |-> ensure_create(idxs, env).duplicate]
    ELSE [raised |-> ~env.list, indexes |-> idxs,
          warning |-> IF env.list THEN "" ELSE "list_error",
          duplicate |-> FALSE]

\* the try block "create the vector index if it does not exist", run in one
\* go, with its except clause: raised is TRUE when an exception leaves it
ensure_index(idxs, env) ==
    IF wants_create(idxs, env)
    THEN [raised |-> FALSE, indexes |-> ensure_create(idxs, env).indexes,
          warning |-> ensure_create(idxs, env).warning,
          duplicate |-> ensure_create(idxs, env).duplicate]
    ELSE [raised |-> FALSE, indexes |-> idxs,
          warning |-> IF env.list THEN "" ELSE "list_error",
          duplicate |-> FALSE]

\* create_embeddings_and_store(speaker_transcripts, vo, collection), run in
\* one go
create_embeddings_and_store(speaker_transcripts, coll, idxs, uuid, env) ==
    LET w == store_segments(speaker_transcripts, coll, uuid, env)
        x == ensure_index(idxs, env)
    IN  IF w.raised
        THEN [raised |-> TRUE, step |-> w.step, store |-> w.store,
              indexes |-> idxs, session_id |-> NoSession, count |-> 0,
              warning |-> "", duplicate |-> FALSE]
        ELSE [raised |-> x.raised, step |-> "index", store |-> w.store,
              indexes |-> x.indexes,
              session_id |-> IF x.raised THEN NoSession ELSE w.session_id,
              count |-> IF x.raised THEN 0 ELSE w.count,
              warning |-> x.warning, duplicate |-> x.duplicate]

\* mutant: the reset drops the index and leaves the documents
reset_database_keeps_documents(coll, idxs, env) ==
    IF ~env.delete
    THEN [raised |-> TRUE, store |-> coll, indexes |-> idxs]
    ELSE [raised |-> FALSE, store |-> coll,
          indexes |-> IF env.drop THEN drop_search_index(idxs, IndexName)
                      ELSE idxs]

\* the body of the reset button: delete_many({}), then drop_search_index in
\* its own try; env.delete and env.drop are TRUE when the call succeeds
reset_database(coll, idxs, env) ==
    IF ~env.delete
    THEN [raised |-> TRUE, store |-> coll, indexes |-> idxs]
    ELSE [raised |-> FALSE, store |-> <<>>,
          indexes |-> IF env.drop THEN drop_search_index(idxs, IndexName)
                      ELSE idxs]

-----------------------------------------------------------------------------
(* search_and_generate_response *)

\* vectorSearchScore: cosine order over vectors of one norm
Score(queryVector, embedding) ==
    queryVector[1] * embedding[1] + queryVector[2] * embedding[2]

\* the sets of documents an exact $vectorSearch with this limit may keep:
\* the limit best scored, equal scores cut either way
TopCuts(coll, queryVector, limit) ==
    {S \in SUBSET (1..Len(coll)) :
        /\ Cardinality(S) = Min(limit, Len(coll))
        /\ \A i \in S, j \in (1..Len(coll)) \ S :
              Score(queryVector, coll[i].embedding)
                  >= Score(queryVector, coll[j].embedding)}

RECURSIVE Ranked(_, _, _)
\* the kept documents by descending score
Ranked(coll, queryVector, S) ==
    IF S = {} THEN <<>>
    ELSE LET sc(i) == Score(queryVector, coll[i].embedding)
             best  == CHOOSE i \in S :
                         \A j \in S : sc(i) > sc(j) \/ (sc(i) = sc(j) /\ i <= j)
         IN  <<[text       |-> coll[best].text,
                embedding  |-> coll[best].embedding,
                session_id |-> coll[best].session_id,
                score      |-> sc(best)]>>
             \o Ranked(coll, queryVector, S \ {best})

\* stage {"$vectorSearch": {"index": ..., "queryVector": ..., "limit": 5, "exact": True}}
vectorSearch_stage(coll, idxs, queryVector, cut) ==
    IF vector_index_exists(idxs) THEN Ranked(coll, queryVector, cut) ELSE <<>>

\* stage {"$match": {"session_id": session_id}}
match_stage(rows, session_id) ==
    SelectSeq(rows, LAMBDA r : r.session_id = session_id)

\* stage {"$project": {"_id": 0, "text": 1, "session_id": 1, "score": ...}}
project_stage(rows) ==
    [i \in 1..Len(rows) |->
        [text |-> rows[i].text, session_id |-> rows[i].session_id,
         score |-> rows[i].score]]

\* list.insert(index, x) of Python, index counted from 0
list_insert(list, index, x) ==
    SubSeq(list, 1, Min(index, Len(list))) \o <<x>>
        \o SubSeq(list, Min(index, Len(list)) + 1, Len(list))

\* mutant: the $match stage is never inserted
search_pipeline_unscoped(session_id) == <<"$vectorSearch", "$project">>

\* the stages of search_pipeline, in order
search_pipeline(session_id) ==
    IF session_id # NoSession
    THEN list_insert(<<"$vectorSearch", "$project">>, 1, "$match")
    ELSE <<"$vectorSearch", "$project">>

RECURSIVE run_stages(_, _, _, _, _, _)
\* collection.aggregate(search_pipeline): the stages applied one after the other
run_stages(pipeline, rows, coll, idxs, q, cut) ==
    IF pipeline = <<>> THEN rows
    ELSE LET stage == Head(pipeline)
             next  == CASE stage = "$vectorSearch" ->
                              vectorSearch_stage(coll, idxs, q.vector, cut)
                        [] stage = "$match"   -> match_stage(rows, q.session_id)
                        [] stage = "$project" -> project_stage(rows)
         IN  run_stages(Tail(pipeline), next, coll, idxs, q, cut)

aggregate(coll, idxs, queryVector, session_id, cut) ==
    run_stages(search_pipeline(session_id), <<>>, coll, idxs,
               [vector |-> queryVector, session_id |-> session_id], cut)

\* what the remote calls of one query do: env.embed, env.search, env.llm are
\* TRUE when the call succeeds, env.cut is the cut the store makes
QueryEnvs(coll, queryVector) ==
    [embed : {FALSE}, search : {FALSE}, llm : {FALSE}, cut : {{}}]
    \cup [embed : {TRUE}, search : {FALSE}, llm : {FALSE}, cut : {{}}]
    \cup [embed : {TRUE}, search : {TRUE}, llm : BOOLEAN,
           cut : TopCuts(coll, queryVector, LIMIT)]

\* mutant: the test for an empty result is missing
no_results_unchecked(results) == FALSE

\* if not results
no_results(results) == results = <<>>

\* search_and_generate_response(query, vo, collection, llm, session_id):
\* raised is TRUE when an exception leaves the function, llm_called when
\* llm.models.generate_content was invoked
search_and_generate_response(query, session_id, coll, idxs, env) ==
    LET query_embed == EmbedText(query)
        results     == aggregate(coll, idxs, query_embed, session_id, env.cut)
    IN  IF ~env.embed
        THEN [raised |-> TRUE, answer |-> "", citations |-> <<>>,
              llm_called |-> FALSE]
        ELSE IF ~env.search
        THEN [raised |-> FALSE, answer |-> "search_error", citations |-> <<>>,
              llm_called |-> FALSE]
        ELSE IF no_results(results)
        THEN [raised |-> FALSE, answer |-> "not_found", citations |-> <<>>,
              llm_called |-> FALSE]
        ELSE [raised |-> FALSE,
              answer |-> IF env.llm THEN "llm_answer" ELSE "llm_error",
              citations |-> results, llm_called |-> TRUE]

-----------------------------------------------------------------------------
(* State *)

NoOutcome ==
    [op |-> "none", user |-> "", status |-> "", session_id |-> NoSession,
     count |-> 0, warning |-> "", duplicate |-> FALSE, answer |-> "",
     citations |-> <<>>, llm_called |-> FALSE]

SessionIds(coll) == {coll[i].session_id : i \in 1..Len(coll)}

\* st.session_state without the keys 'transcripts' and 'session_id'
EmptySessionState == [transcripts |-> <<>>, session_id |-> NoSession]

NoLocals == [session_id |-> NoSession, count |-> 0]

Init ==
    /\ store = <<>>
    /\ indexes = <<>>
    /\ nextSid = 1
    /\ session_state = [u \in Users |-> EmptySessionState]
    /\ pc = [u \in Users |-> "idle"]
    /\ local = [u \in Users |-> NoLocals]
    /\ out = NoOutcome
    /\ deleted = <<>>

-----------------------------------------------------------------------------
(* The handlers of main, each run in one go *)

\* "process audio" button, the transcription raising
ProcessAudioTranscribeFails(u) ==
    /\ pc[u] = "idle"
    /\ nextSid <= MaxSessions
    /\ out' = [NoOutcome EXCEPT !.op = "ingest", !.user = u,
                                !.status = "transcribe_error"]
    /\ deleted' = <<>>
    /\ UNCHANGED <<store, indexes, nextSid, session_state, pc, local>>

\* "process audio" button, the transcription returning utterances
ProcessAudio(u) ==
    /\ pc[u] = "idle"
    /\ nextSid <= MaxSessions
    /\ \E utterances \in Recordings :
       \E env \in IngestEnvs(Len(utterances)) :
          LET speaker_transcripts == transcribe_audio(utterances)
              r == create_embeddings_and_store(speaker_transcripts, store,
                                               indexes, nextSid, env)
          IN  /\ store' = r.store
              /\ indexes' = r.indexes
              /\ nextSid' = IF r.raised /\ r.step = "embed" THEN nextSid
                            ELSE nextSid + 1
              /\ session_state' =
                    [session_state EXCEPT
                        ![u].transcripts = <<speaker_transcripts>>,
                        ![u].session_id =
                            IF r.raised THEN @ ELSE r.session_id]
              /\ out' = [NoOutcome EXCEPT
                            !.op = "ingest", !.user = u,
                            !.status = IF r.raised THEN r.step \o "_error"
                                       ELSE "ok",
                            !.session_id = r.session_id,
                            !.count = r.count,
                            !.warning = r.warning,
                            !.duplicate = r.duplicate]
    /\ deleted' = <<>>
    /\ UNCHANGED <<pc, local>>

\* "reset database" button
ResetDatabase(u) ==
    /\ pc[u] = "idle"
    /\ \E env \in [delete : BOOLEAN, drop : BOOLEAN] :
          LET r == reset_database(store, indexes, env)
          IN  /\ store' = r.store
              /\ indexes' = r.indexes
              /\ session_state' =
                    IF r.raised THEN session_state
                    ELSE [session_state EXCEPT ![u] = EmptySessionState]
              /\ out' = [NoOutcome EXCEPT
                            !.op = "reset", !.user = u,
                            !.status = IF r.raised THEN "error" ELSE "ok"]
              /\ deleted' = IF r.raised THEN deleted
                            ELSE <<SessionIds(store)>>
    /\ UNCHANGED <<nextSid, pc, local>>

\* the response of one query as an outcome record
QueryOutcome(session_id, r) ==
    [NoOutcome EXCEPT
        !.op = "query",
        !.status = IF r.raised THEN "raised" ELSE "returned",
        !.session_id = session_id, !.answer = r.answer,
        !.citations = r.citations, !.llm_called = r.llm_called]

\* chat input: a query scoped to the session_id the browser session holds
ChatQuery(u) ==
    /\ pc[u] = "idle"
    /\ session_state[u].session_id # NoSession
    /\ \E query \in Queries :
       \E env \in QueryEnvs(store, EmbedText(query)) :
          out' = QueryOutcome(session_state[u].session_id,
                    search_and_generate_response(query,
                        session_state[u].session_id, store, indexes, env))
    /\ UNCHANGED <<store, indexes, nextSid, session_state, pc, local, deleted>>

\* search_and_generate_response called with any session_id, None included
SearchCall ==
    /\ \E query \in Queries, session_id \in 0..(nextSid - 1) :
       \E env \in QueryEnvs(store, EmbedText(query)) :
          out' = QueryOutcome(session_id,
                    search_and_generate_response(query, session_id, store,
                                                 indexes, env))
    /\ UNCHANGED <<store, indexes, nextSid, session_state, pc, local, deleted>>

\* one browser session, and callers of search_and_generate_response
Next ==
    \/ ProcessAudioTranscribeFails("u1")
    \/ ProcessAudio("u1")
    \/ ResetDatabase("u1")
    \/ ChatQuery("u1")
    \/ SearchCall

Spec == Init /\ [][Next]_vars

-----------------------------------------------------------------------------
(* Two browser sessions: the script runs of their "process audio" handlers  *)
(* interleave at the calls to the store.                                     *)

\* create_embeddings_and_store returns (session_id, len(docs)) and main
\* stores the session_id
IngestReturn(u, warning, duplicate) ==
    /\ session_state' =
          [session_state EXCEPT ![u].session_id = local[u].session_id]
    /\ out' = [NoOutcome EXCEPT
                  !.op = "ingest", !.user = u, !.status = "ok",
                  !.session_id = local[u].session_id,
                  !.count = local[u].count,
                  !.warning = warning, !.duplicate = duplicate]
    /\ pc' = [pc EXCEPT ![u] = "idle"]
    /\ local' = [local EXCEPT ![u] = NoLocals]

\* "process audio" button up to and including insert_many
IngestStore(u) ==
    /\ pc[u] = "idle"
    /\ nextSid <= MaxSessions
    /\ \E utterances \in Recordings :
       \E env \in IngestEnvs(Len(utterances)) :
          LET speaker_transcripts == transcribe_audio(utterances)
              w == store_segments(speaker_transcripts, store, nextSid, env)
          IN  /\ store' = w.store
              /\ nextSid' = IF w.raised /\ w.step = "embed" THEN nextSid
                            ELSE nextSid + 1
              /\ session_state' =
                    [session_state EXCEPT
                        ![u].transcripts = <<speaker_transcripts>>]
              /\ IF w.raised
                 THEN /\ out' = [NoOutcome EXCEPT
                                    !.op = "ingest", !.user = u,
                                    !.status = w.step \o "_error"]
                      /\ UNCHANGED <<pc, local>>
                 ELSE /\ pc' = [pc EXCEPT ![u] = "list"]
                      /\ local' = [local EXCEPT
                                      ![u] = [session_id |-> w.session_id,
                                              count |-> w.count]]
                      /\ UNCHANGED out
    /\ deleted' = <<>>
    /\ UNCHANGED indexes

\* collection.list_search_indexes() and the test of vector_index_exists
IngestList(u) ==
    /\ pc[u] = "list"
    /\ \E list_ok \in BOOLEAN :
          IF wants_create(indexes, [list |-> list_ok])
          THEN /\ pc' = [pc EXCEPT ![u] = "create"]
               /\ UNCHANGED <<session_state, local, out>>
          ELSE IngestReturn(u, IF list_ok THEN "" ELSE "list_error", FALSE)
    /\ UNCHANGED <<store, indexes, nextSid, deleted>>

\* collection.create_search_index(model=search_index_model), then the return
IngestCreate(u) ==
    /\ pc[u] = "create"
    /\ \E create_ok \in BOOLEAN :
          LET x == ensure_create(indexes, [create |-> create_ok])
          IN  /\ indexes' = x.indexes
              /\ IngestReturn(u, x.warning, x.duplicate)
    /\ UNCHANGED <<store, nextSid, deleted>>

NextConc ==
    \/ \E u \in Users : ProcessAudioTranscribeFails(u)
    \/ \E u \in Users : IngestStore(u)
    \/ \E u \in Users : IngestList(u)
    \/ \E u \in Users : IngestCreate(u)
    \/ \E u \in Users : ResetDatabase(u)
    \/ \E u \in Users : ChatQuery(u)

SpecConc == Init /\ [][NextConc]_vars

-----------------------------------------------------------------------------
(* Properties *)

U1 == session_state["u1"]

\* the documents of the collection that carry this session_id
SessionDocs(coll, session_id) ==
    SelectSeq(coll, LAMBDA d : d.session_id = session_id)

QueryReturned == out.op = "query" /\ out.status = "returned"

\* C1: session isolation.  Every citation of a query scoped to a session_id S
\* carries session_id = S, and no two ingestions share a session_id: the
\* documents of one session_id are one contiguous run of the collection, written
\* by one insert_many with a session_id handed out before.
C1_SessionIsolation ==
    /\ (out.op = "query" /\ out.session_id # NoSession)
          => \A i \in 1..Len(out.citations) :
                out.citations[i].session_id = out.session_id
    /\ \A i \in 1..Len(store) :
          /\ store[i].session_id \in 1..(nextSid - 1)
          /\ \A j \in i..Len(store) :
                store[i].session_id = store[j].session_id
                   => \A k \in i..j : store[k].session_id = store[i].session_id

\* a scoped query returned citations while the collection also holds the
\* documents of another session
C1_Witness ==
    /\ QueryReturned
    /\ out.session_id # NoSession
    /\ out.citations # <<>>
    /\ \E i \in 1..Len(store) : store[i].session_id # out.session_id

\* C2: pre-filtering.  A scoped query whose search succeeded on an existing
\* index returns min(5, n) citations, n the number of documents of the session,
\* whatever documents of other sessions the collection holds.
C2_PreFilter ==
    (/\ QueryReturned
     /\ out.answer # "search_error"
     /\ out.session_id # NoSession
     /\ vector_index_exists(indexes))
       => Len(out.citations)
             = Min(LIMIT, Len(SessionDocs(store, out.session_id)))

\* C3: no failure of a remote call leaves search_and_generate_response as an
\* exception; every call returns an (answer, citations) pair.
C3_QueryNeverRaises ==
    out.op = "query" => out.status = "returned"

\* C4: an ingestion that fails at the transcription or at the embedding writes
\* no document, returns no session_id, and leaves the session_id the browser
\* session holds as it was.
C4_FailedIngestionNoSideEffects ==
    [][(out'.op = "ingest"
          /\ out'.status \in {"transcribe_error", "embed_error"})
        => /\ store' = store
           /\ indexes' = indexes
           /\ out'.session_id = NoSession
           /\ session_state'["u1"].session_id = session_state["u1"].session_id
      ]_vars

\* an ingestion failed at the embedding while the browser session held the
\* session_id of an earlier, stored ingestion
C4_Witness ==
    /\ out.op = "ingest"
    /\ out.status = "embed_error"
    /\ U1.session_id # NoSession
    /\ SessionDocs(store, U1.session_id) # <<>>
    /\ U1.transcripts # <<>>
    /\ U1.transcripts[1] # <<>>

\* C5: once insert_many succeeded, create_embeddings_and_store returns
\* (session_id, number of documents written) whether listing the indexes or
\* creating the index succeeds or raises, and the documents stay stored.
C5_IndexFailureNonFatal ==
    [][(out'.op = "ingest"
          /\ out'.status \notin {"transcribe_error", "embed_error", "insert_error"})
        => /\ out'.status = "ok"
           /\ out'.session_id = nextSid
           /\ out'.count >= 1
           /\ Len(store') = Len(store) + out'.count
           /\ SubSeq(store', 1, Len(store)) = store
           /\ \A i \in (Len(store) + 1)..Len(store') :
                 store'[i].session_id = out'.session_id
           /\ session_state'["u1"].session_id = out'.session_id
      ]_vars

\* an ingestion returned its session_id after the listing or the creation of
\* the index raised
C5_Witness ==
    /\ out.op = "ingest"
    /\ out.status = "ok"
    /\ out.warning \in {"list_error", "create_error"}
    /\ out.count = Len(SessionDocs(store, out.session_id))
    /\ out.count >= 1

\* C6: ensure-index is idempotent under every interleaving.  A create of
\* 'vector_index' is never issued while an index of that name exists (no
\* duplicate-index error), and at most one index of the name exists.
C6_EnsureIndexIdempotent ==
    /\ out.duplicate = FALSE
    /\ Cardinality({i \in 1..Len(indexes) : indexes[i] = IndexName}) <= 1

\* C7: no stale data after reset.  From a reset that deleted the documents
\* until the next ingestion, every query, scoped or not, yields no citation,
\* so none of a session the reset deleted, and the model is not called.
C7_NoStaleDataAfterReset ==
    (deleted # <<>> /\ out.op = "query")
       => /\ out.citations = <<>>
          /\ \A i \in 1..Len(out.citations) :
                out.citations[i].session_id \notin deleted[1]
          /\ out.llm_called = FALSE
          /\ out.status = "returned"
                => out.answer \in {"search_error", "not_found"}

\* after a reset that deleted documents, a query scoped to one of the deleted
\* sessions returned
C7_Witness ==
    /\ deleted # <<>>
    /\ QueryReturned
    /\ out.session_id \in deleted[1]
    /\ out.answer = "not_found"

\* C8: a successful ingestion of a transcript of n >= 1 utterances returns
\* segment_count = n and appends exactly n documents, the i-th with the text
\* "{speaker_i}: {text_i}" of the i-th utterance, all with the returned
\* session_id.
C8_IngestWritesTranscript ==
    [][(out'.op = "ingest" /\ out'.status = "ok")
        => LET t == session_state'["u1"].transcripts[1]
               n == Len(t)
           IN  /\ n >= 1
               /\ out'.count = n
               /\ out'.session_id # NoSession
               /\ Len(store') = Len(store) + n
               /\ SubSeq(store', 1, Len(store)) = store
               /\ \A i \in 1..n :
                     /\ store'[Len(store) + i].text
                           = t[i].speaker \o ": " \o t[i].text
                     /\ store'[Len(store) + i].session_id = out'.session_id
      ]_vars

\* a two-utterance transcript was ingested after an earlier session was stored
C8_Witness ==
    /\ out.op = "ingest"
    /\ out.status = "ok"
    /\ out.count = 2
    /\ Len(store) > 2
    /\ store[Len(store) - 1].text = "Speaker A: hello"
    /\ store[Len(store)].text = "Speaker B: world"

\* C9: empty-context guard.  The model is called only by a query whose search
\* succeeded with at least one result; a search with no result gives the fixed
\* 'not found' answer, no citation and no call of the model.
C9_EmptyContextGuard ==
    /\ out.llm_called
          => /\ QueryReturned
             /\ out.citations # <<>>
             /\ out.answer \in {"llm_answer", "llm_error"}
    /\ (QueryReturned /\ out.citations = <<>>)
          => /\ out.answer \in {"not_found", "search_error"}
             /\ out.llm_called = FALSE

\* a query over a collection that holds documents found none for its scope
C9_Witness ==
    /\ QueryReturned
    /\ out.answer = "not_found"
    /\ store # <<>>
    /\ vector_index_exists(indexes)

\* C10: the transcripts and the session_id the browser session holds are both
\* absent, or both of one ingestion: the stored documents of the session_id are
\* the sentences of the transcripts.
C10_CallerStateConsistent ==
    \/ U1.transcripts = <<>> /\ U1.session_id = NoSession
    \/ /\ U1.transcripts # <<>>
       /\ U1.session_id # NoSession
       /\ [i \in 1..Len(SessionDocs(store, U1.session_id)) |->
              SessionDocs(store, U1.session_id)[i].text]
             = speaker_sents(U1.transcripts[1])

=============================================================================
